---------------------------- MODULE Spec2Model ----------------------------
(***************************************************************************)
(* Model of deterministic_hash::DeterministicHasher<T: Hasher>             *)
(* (src/src/lib.rs): a wrapper that forwards every primitive write to the  *)
(* inner hasher as little-endian bytes, usize/isize widened to 64 bits.    *)
(*                                                                         *)
(* The same program (one sequence of Hasher calls) is run on every         *)
(* compilation target at once: a target is a native byte order and a       *)
(* native pointer width.  TLC integers are 32 bits wide, so an unsigned    *)
(* integer of width W is held as its W/8 base-256 digits, least            *)
(* significant digit first; signed arguments are small TLC integers.       *)
(***************************************************************************)
EXTENDS Integers, Sequences, FiniteSets, TLC

VARIABLES
    hasher,   \* per target: the DeterministicHasher under test
    chained,  \* per target: a DeterministicHasher wrapping a DeterministicHasher
    pre,      \* per target: `hasher` as it was before the last write
    ops,      \* the writes called so far, in call order
    lastOp,   \* the method called last
    rets,     \* the last two values finish() returned since the last write
    view,     \* what the caller read through as_inner(), if that was the last call
    out,      \* per target: the sink into_inner() gave back (none: <<>>)
    sink0     \* the sink the caller handed to new()

vars == <<hasher, chained, pre, ops, lastOp, rets, view, out, sink0>>

(***************************************************************************)
(* Bounds of the model.                                                    *)
(***************************************************************************)
MaxWrites == 2
MaxRawLen == 2

(***************************************************************************)
(* Compilation targets.                                                    *)
(***************************************************************************)
Platforms == [endian : {"little", "big"}, bits : {16, 32, 64}]

NativeBytes(p) == p.bits \div 8

(***************************************************************************)
(* Integers as digit sequences.                                            *)
(***************************************************************************)
RECURSIVE Digits(_, _)
Digits(n, len) ==
    IF len = 0 THEN <<>> ELSE <<n % 256>> \o Digits(n \div 256, len - 1)

Reverse(s) == [k \in 1..Len(s) |-> s[Len(s) + 1 - k]]

RECURSIVE Flatten(_)
Flatten(ss) == IF ss = <<>> THEN <<>> ELSE Head(ss) \o Flatten(Tail(ss))

(***************************************************************************)
(* The inner sink T: any core::hash::Hasher.  It accumulates the bytes it  *)
(* is given; `calls` logs each call it received: the entry point and the   *)
(* number of bytes the call carried.  Its digest is a checksum of the      *)
(* accumulated bytes (16 bits here).                                       *)
(***************************************************************************)
\* The checksum of the first n bytes.
RECURSIVE Checksum(_, _)
Checksum(bytes, n) ==
    IF n = 0 THEN 1
    ELSE (Checksum(bytes, n - 1) * 31 + bytes[n] + 1) % 65521

SinkWrite(t, bytes) ==
    [acc |-> t.acc \o bytes,
     calls |-> Append(t.calls, <<"write", Len(bytes)>>)]

SinkFinish(t) == Checksum(t.acc, Len(t.acc))

FreshSink == [acc |-> <<>>, calls |-> <<>>]

IsSink(t) == "acc" \in DOMAIN t

\* The sink at the bottom of a stack of wrappers, and its accumulated bytes.
RECURSIVE SinkOf(_)
SinkOf(t) == IF IsSink(t) THEN t ELSE SinkOf(t.inner)

Acc(h) == SinkOf(h).acc

\* Hasher::write_u16 as core provides it when T does not override it: the
\* native-order bytes.  The wrapper never calls it; a mutant below does.
SinkWriteU16(t, i, p) ==
    [acc |-> t.acc \o (IF p.endian = "little" THEN i ELSE Reverse(i)),
     calls |-> Append(t.calls, <<"write_u16", Len(i)>>)]

(***************************************************************************)
(* core's integer conversions, as the source calls them.                   *)
(***************************************************************************)
swap_bytes(v) == Reverse(v)

to_le(v, p) == IF p.endian = "little" THEN v ELSE swap_bytes(v)

to_ne_bytes(v, p) == IF p.endian = "little" THEN v ELSE Reverse(v)

\* Mutant: the bytes in native order, as core's default Hasher methods do.
to_le_bytes_native(v, p) == to_ne_bytes(v, p)

to_le_bytes(v, p) == to_ne_bytes(to_le(v, p), p)

\* Mutant: the magnitude in place of the two's-complement bits.
as_unsigned_magnitude(s, len) == Digits(IF s >= 0 THEN s ELSE -s, len)

\* `i as uN` for a signed i of the same width: the two's-complement bits.
as_unsigned(s, len) ==
    IF s >= 0 THEN Digits(s, len)
    ELSE [k \in 1..len |-> 255 - Digits(-s - 1, len)[k]]

\* `i as u64` for an unsigned i: zero-extended, or truncated, to 8 bytes.
as_u64(v) ==
    IF Len(v) >= 8 THEN SubSeq(v, 1, 8)
    ELSE v \o [k \in 1..(8 - Len(v)) |-> 0]

(***************************************************************************)
(* impl<T: Hasher> DeterministicHasher<T>                                  *)
(***************************************************************************)
new(inner) == [inner |-> inner]

as_inner(self) == self.inner

\* Mutant: the sink taken out is replaced by a default one.
into_inner_default(self) == FreshSink

into_inner(self) == self.inner

(***************************************************************************)
(* impl<T: Hasher> Hasher for DeterministicHasher<T>.  T is a sink or,     *)
(* when chained, another DeterministicHasher.                              *)
(***************************************************************************)
RECURSIVE finish(_)

\* Mutant: the digest cut to its low byte.
finish_truncated(self) ==
    (IF IsSink(self.inner) THEN SinkFinish(self.inner) ELSE finish(self.inner))
        % 256

finish(self) ==
    IF IsSink(self.inner) THEN SinkFinish(self.inner) ELSE finish(self.inner)

RECURSIVE write(_, _)

\* Mutant: the slice hashed as a slice, its length written before its bytes.
write_len_prefixed(self, bytes) ==
    IF IsSink(self.inner)
    THEN [inner |-> SinkWrite(self.inner, <<Len(bytes)>> \o bytes)]
    ELSE [inner |-> write(self.inner, <<Len(bytes)>> \o bytes)]

write(self, bytes) ==
    IF IsSink(self.inner)
    THEN [inner |-> SinkWrite(self.inner, bytes)]
    ELSE [inner |-> write(self.inner, bytes)]

write_u8(self, i, p) == write(self, to_le_bytes(i, p))

\* Mutant: the value byte-swapped to little-endian and handed to the inner
\* hasher's own write_u16.
RECURSIVE write_u16_typed(_, _, _)
write_u16_typed(self, i, p) ==
    IF IsSink(self.inner)
    THEN [inner |-> SinkWriteU16(self.inner, to_le(i, p), p)]
    ELSE [inner |-> write_u16_typed(self.inner, to_le(i, p), p)]

write_u16(self, i, p) == write(self, to_le_bytes(i, p))

\* Mutant: the value aligned to its size, padding written before it.
write_u32_aligned(self, i, p) ==
    LET pad == (4 - (Len(Acc(self)) % 4)) % 4
    IN  write(write(self, [k \in 1..pad |-> 0]), to_le_bytes(i, p))

write_u32(self, i, p) == write(self, to_le_bytes(i, p))

\* Mutant: the bytes handed over one write call each.
RECURSIVE WriteEach(_, _)
WriteEach(self, bytes) ==
    IF bytes = <<>> THEN self
    ELSE WriteEach(write(self, <<Head(bytes)>>), Tail(bytes))

write_u64_bytewise(self, i, p) == WriteEach(self, to_le_bytes(i, p))

write_u64(self, i, p) == write(self, to_le_bytes(i, p))

write_u128(self, i, p) == write(self, to_le_bytes(i, p))

\* Mutant: usize written at its native width, the cast to u64 forgotten.
write_usize_native(self, i, p) == write(self, to_le_bytes(i, p))

write_usize(self, i, p) == write(self, to_le_bytes(as_u64(i), p))

write_i8(self, i, p) == write_u8(self, as_unsigned(i, 1), p)

write_i16(self, i, p) == write_u16(self, as_unsigned(i, 2), p)

write_i32(self, i, p) == write_u32(self, as_unsigned(i, 4), p)

write_i64(self, i, p) == write_u64(self, as_unsigned(i, 8), p)

write_i128(self, i, p) == write_u128(self, as_unsigned(i, 16), p)

write_isize(self, i, p) == write_usize(self, as_unsigned(i, NativeBytes(p)), p)

(***************************************************************************)
(* The caller: one Hasher call.  An op is the method, then its argument:   *)
(* the bytes or the unsigned value, the signed value (or the usize         *)
(* literal), and whether it is usize::MAX, whose value depends on the      *)
(* target.                                                                 *)
(***************************************************************************)
Op(kind, v, s, max) == <<kind, v, s, max>>

Kind(op) == op[1]

Arg(op) == op[2]

Signed(op) == op[3]

IsMax(op) == op[4]

UsizeArg(op, p) ==
    IF IsMax(op) THEN [k \in 1..NativeBytes(p) |-> 255]
    ELSE Digits(Signed(op), NativeBytes(p))

Apply(self, op, p) ==
    CASE Kind(op) = "write" -> write(self, Arg(op))
      [] Kind(op) = "write_u8" -> write_u8(self, Arg(op), p)
      [] Kind(op) = "write_u16" -> write_u16(self, Arg(op), p)
      [] Kind(op) = "write_u32" -> write_u32(self, Arg(op), p)
      [] Kind(op) = "write_u64" -> write_u64(self, Arg(op), p)
      [] Kind(op) = "write_u128" -> write_u128(self, Arg(op), p)
      [] Kind(op) = "write_usize" -> write_usize(self, UsizeArg(op, p), p)
      [] Kind(op) = "write_i8" -> write_i8(self, Signed(op), p)
      [] Kind(op) = "write_i16" -> write_i16(self, Signed(op), p)
      [] Kind(op) = "write_i32" -> write_i32(self, Signed(op), p)
      [] Kind(op) = "write_i64" -> write_i64(self, Signed(op), p)
      [] Kind(op) = "write_i128" -> write_i128(self, Signed(op), p)
      [] Kind(op) = "write_isize" -> write_isize(self, Signed(op), p)

(***************************************************************************)
(* The arguments the caller draws from.                                    *)
(***************************************************************************)
\* Byte strings of every length up to MaxRawLen, no byte twice in one string.
RawSeqs == {[k \in 1..n |-> 10 + k] : n \in 0..MaxRawLen}

\* A value whose bytes all differ, top bit set; and 0x1337 where it fits.
UVals(len) ==
    {[k \in 1..len |-> 224 + k]} \cup (IF len = 2 THEN {Digits(4919, len)} ELSE {})

SVals(len) ==
    IF len = 1 THEN {-1, -128, 100}
    ELSE IF len = 2 THEN {-4919, 4919}
    ELSE {-4919}

UsizeLits == {4919}

IsizeLits == {-1, 4919}

\* The sink the caller wraps: fresh, or already fed a byte.
Sinks == {FreshSink, SinkWrite(FreshSink, <<238>>)}

(***************************************************************************)
(* The state machine.                                                      *)
(***************************************************************************)
Live == lastOp # "into_inner"

Init ==
    \E t \in Sinks :
        /\ hasher = [p \in Platforms |-> new(t)]
        /\ chained = [p \in Platforms |-> new(new(t))]
        /\ pre = [p \in Platforms |-> new(t)]
        /\ ops = <<>>
        /\ lastOp = "new"
        /\ rets = <<>>
        /\ view = <<>>
        /\ out = [p \in Platforms |-> <<>>]
        /\ sink0 = t

\* A write may be called: the hasher is not consumed, the run not at its bound.
CanWrite == Live /\ Len(ops) < MaxWrites

\* A write call: the same call on every target, on both hashers.
Call(op) ==
    /\ pre' = hasher
    /\ hasher' = [p \in Platforms |-> Apply(hasher[p], op, p)]
    /\ chained' = [p \in Platforms |-> Apply(chained[p], op, p)]
    /\ ops' = Append(ops, op)
    /\ lastOp' = "write"
    /\ rets' = <<>>
    /\ view' = <<>>
    /\ UNCHANGED <<out, sink0>>

Write ==
    \E b \in RawSeqs :
        /\ CanWrite
        /\ Call(Op("write", b, 0, FALSE))

WriteU8 ==
    \E v \in UVals(1) :
        /\ CanWrite
        /\ Call(Op("write_u8", v, 0, FALSE))

WriteU16 ==
    \E v \in UVals(2) :
        /\ CanWrite
        /\ Call(Op("write_u16", v, 0, FALSE))

WriteU32 ==
    \E v \in UVals(4) :
        /\ CanWrite
        /\ Call(Op("write_u32", v, 0, FALSE))

WriteU64 ==
    \E v \in UVals(8) :
        /\ CanWrite
        /\ Call(Op("write_u64", v, 0, FALSE))

WriteU128 ==
    \E v \in UVals(16) :
        /\ CanWrite
        /\ Call(Op("write_u128", v, 0, FALSE))

WriteUsize ==
    /\ CanWrite
    /\ \/ \E n \in UsizeLits : Call(Op("write_usize", <<>>, n, FALSE))
       \/ Call(Op("write_usize", <<>>, 0, TRUE))

WriteI8 ==
    \E s \in SVals(1) :
        /\ CanWrite
        /\ Call(Op("write_i8", <<>>, s, FALSE))

WriteI16 ==
    \E s \in SVals(2) :
        /\ CanWrite
        /\ Call(Op("write_i16", <<>>, s, FALSE))

WriteI32 ==
    \E s \in SVals(4) :
        /\ CanWrite
        /\ Call(Op("write_i32", <<>>, s, FALSE))

WriteI64 ==
    \E s \in SVals(8) :
        /\ CanWrite
        /\ Call(Op("write_i64", <<>>, s, FALSE))

WriteI128 ==
    \E s \in SVals(16) :
        /\ CanWrite
        /\ Call(Op("write_i128", <<>>, s, FALSE))

WriteIsize ==
    \E s \in IsizeLits :
        /\ CanWrite
        /\ Call(Op("write_isize", <<>>, s, FALSE))

\* finish(&self): the digest is returned, the hasher is only read.
Finish ==
    /\ Live
    /\ rets' = (IF rets = <<>> THEN <<>> ELSE <<rets[Len(rets)]>>)
                \o <<[p \in Platforms |-> finish(hasher[p])]>>
    /\ lastOp' = "finish"
    /\ view' = <<>>
    /\ UNCHANGED <<hasher, chained, pre, ops, out, sink0>>

\* as_inner(&self): the caller reads the sink's digest through the borrow.
AsInner ==
    /\ Live
    /\ view' = <<[p \in Platforms |-> SinkFinish(as_inner(hasher[p]))]>>
    /\ lastOp' = "as_inner"
    /\ UNCHANGED <<hasher, chained, pre, ops, rets, out, sink0>>

\* into_inner(self): the hasher is consumed, the caller owns the sink again.
\* `hasher` keeps the value that was moved out, for the properties to read.
IntoInner ==
    /\ Live
    /\ out' = [p \in Platforms |-> <<into_inner(hasher[p])>>]
    /\ lastOp' = "into_inner"
    /\ rets' = <<>>
    /\ view' = <<>>
    /\ UNCHANGED <<hasher, chained, pre, ops, sink0>>

Next ==
    \/ Write
    \/ WriteU8
    \/ WriteU16
    \/ WriteU32
    \/ WriteU64
    \/ WriteU128
    \/ WriteUsize
    \/ WriteI8
    \/ WriteI16
    \/ WriteI32
    \/ WriteI64
    \/ WriteI128
    \/ WriteIsize
    \/ Finish

\* Writes and digest reads, in any order.
Spec == Init /\ [][Next]_vars

NextLifecycle ==
    \/ Next
    \/ AsInner
    \/ IntoInner

\* The same, with borrowing the sink and unwrapping it.
SpecLifecycle == Init /\ [][NextLifecycle]_vars

(***************************************************************************)
(* What the properties below read off a state.                             *)
(***************************************************************************)

HasWritten == ops # <<>>

LastW == ops[Len(ops)]

\* The bytes the last write added to the sink of target p.
Forwarded(p) ==
    SubSeq(Acc(hasher[p]), Len(Acc(pre[p])) + 1, Len(Acc(hasher[p])))

\* The last write added exactly `bytes`, behind what the sink held.
Appended(p, bytes) == Acc(hasher[p]) = Acc(pre[p]) \o bytes

UKinds == {"write_u8", "write_u16", "write_u32", "write_u64", "write_u128"}

IKinds == {"write_i8", "write_i16", "write_i32", "write_i64", "write_i128"}

\* W/8 for the fixed-width methods.
KindBytes(kind) ==
    CASE kind \in {"write_u8", "write_i8"} -> 1
      [] kind \in {"write_u16", "write_i16"} -> 2
      [] kind \in {"write_u32", "write_i32"} -> 4
      [] kind \in {"write_u64", "write_i64"} -> 8
      [] kind \in {"write_u128", "write_i128"} -> 16

UnsignedKind(kind) ==
    CASE kind = "write_i8" -> "write_u8"
      [] kind = "write_i16" -> "write_u16"
      [] kind = "write_i32" -> "write_u32"
      [] kind = "write_i64" -> "write_u64"
      [] kind = "write_i128" -> "write_u128"

\* v >> 8k and v mod 256 on digit sequences.
ShiftRight8(v, k) == SubSeq(v, k + 1, Len(v))

LowByte(v) == v[1]

\* v zero-extended to 64 bits.
ZeroExtend64(v) == [k \in 1..8 |-> IF k <= Len(v) THEN v[k] ELSE 0]

(***************************************************************************)
(* C1: write_u8/u16/u32/u64/u128(v) forwards exactly W/8 bytes, byte k     *)
(* being (v >> 8k) mod 256, behind what the sink held, and the forwarded   *)
(* bytes are the same on big-endian and little-endian targets.             *)
(***************************************************************************)
C1_UnsignedLittleEndian ==
    (HasWritten /\ Kind(LastW) \in UKinds) =>
        \A p \in Platforms :
            /\ Len(Forwarded(p)) = KindBytes(Kind(LastW))
            /\ \A k \in 0..(KindBytes(Kind(LastW)) - 1) :
                   Forwarded(p)[k + 1] = LowByte(ShiftRight8(Arg(LastW), k))
            /\ Appended(p, Forwarded(p))
            /\ \A q \in Platforms : Forwarded(q) = Forwarded(p)

C1_Witness ==
    /\ Len(ops) = 2
    /\ Kind(LastW) = "write_u128"
    /\ \E p \in Platforms :
           /\ p.endian = "big"
           /\ Forwarded(p)[1] = 225
           /\ Forwarded(p)[16] = 240

(***************************************************************************)
(* C2: write_usize(n) forwards exactly 8 bytes, the little-endian bytes of *)
(* n zero-extended to 64 bits, whatever the native width; for n = 0x1337   *)
(* it leaves the hasher as write(37 13 00 00 00 00 00 00) would.           *)
(***************************************************************************)
C2_UsizeEightBytes ==
    (HasWritten /\ Kind(LastW) = "write_usize") =>
        \A p \in Platforms :
            /\ Len(Forwarded(p)) = 8
            /\ Appended(p, ZeroExtend64(UsizeArg(LastW, p)))
            /\ (~IsMax(LastW) /\ Signed(LastW) = 4919) =>
                   hasher[p] = write(pre[p], <<55, 19, 0, 0, 0, 0, 0, 0>>)

C2_Witness ==
    /\ HasWritten
    /\ Kind(LastW) = "write_usize"
    /\ Signed(LastW) = 4919
    /\ ~IsMax(LastW)
    /\ \E p \in Platforms :
           p.bits = 16 /\ p.endian = "big" /\ Len(Forwarded(p)) = 8

(***************************************************************************)
(* C3: write_isize(n), n representable at every native width, forwards     *)
(* the same 8 bytes on every target.                                       *)
(***************************************************************************)
C3_IsizeSameOnAllTargets ==
    (HasWritten /\ Kind(LastW) = "write_isize") =>
        \A p, q \in Platforms : Forwarded(p) = Forwarded(q)

(***************************************************************************)
(* C4: write_i8/i16/i32/i64/i128(s) leaves the hasher as the unsigned      *)
(* method of the same width does for u = s mod 2^W; i8 -1 forwards [0xFF]. *)
(***************************************************************************)
C4_SignedAsUnsigned ==
    (HasWritten /\ Kind(LastW) \in IKinds) =>
        \A p \in Platforms :
            LET u == Digits(Signed(LastW), KindBytes(Kind(LastW)))
                unsignedCall == Op(UnsignedKind(Kind(LastW)), u, 0, FALSE)
            IN  /\ hasher[p] = Apply(pre[p], unsignedCall, p)
                /\ (Kind(LastW) = "write_i8" /\ Signed(LastW) = -1) =>
                       Forwarded(p) = <<255>>

C4_Witness ==
    /\ HasWritten
    /\ Kind(LastW) = "write_i64"
    /\ Signed(LastW) < 0
    /\ \E p \in Platforms : Forwarded(p)[8] = 255

(***************************************************************************)
(* C5: write(seq) appends exactly seq to the sink's accumulated bytes,     *)
(* the empty sequence included.                                            *)
(***************************************************************************)
C5_RawPassThrough ==
    (HasWritten /\ Kind(LastW) = "write") =>
        \A p \in Platforms : Appended(p, Arg(LastW))

C5_Witness ==
    /\ Len(ops) = 2
    /\ Kind(LastW) = "write"
    /\ Len(Arg(LastW)) = 2
    /\ Kind(ops[1]) = "write"
    /\ Arg(ops[1]) = <<>>

(***************************************************************************)
(* More that the properties read off a state.                              *)
(***************************************************************************)
\* The hasher of target p as the last write, or new(), left it.
AfterLastWrite(p) ==
    IF HasWritten THEN Apply(pre[p], LastW, p) ELSE new(sink0)

\* The bytes one write, normalized on its own, hands to a fresh sink.
Canon(op, p) == Acc(Apply(new(FreshSink), op, p))

\* The bytes of every write so far, each normalized on its own, in call order.
Concatenation(p) == Flatten([i \in 1..Len(ops) |-> Canon(ops[i], p)])

\* The length of a write's canonical byte sequence.
CanonLen(op) ==
    CASE Kind(op) = "write" -> Len(Arg(op))
      [] Kind(op) \in {"write_usize", "write_isize"} -> 8
      [] OTHER -> KindBytes(Kind(op))

(***************************************************************************)
(* C6: finish() returns the inner sink's digest of the bytes accumulated   *)
(* so far and leaves the hasher as it was: two calls with no write between *)
(* them return the same value.                                             *)
(***************************************************************************)
C6_FinishReadsOnly ==
    rets # <<>> =>
        \A p \in Platforms :
            /\ \A i \in 1..Len(rets) : rets[i][p] = SinkFinish(SinkOf(hasher[p]))
            /\ \A i, j \in 1..Len(rets) : rets[i][p] = rets[j][p]
            /\ hasher[p] = AfterLastWrite(p)

C6_Witness ==
    /\ Len(rets) = 2
    /\ Len(ops) = 2
    /\ lastOp = "finish"
    /\ \A p \in Platforms : rets[1][p] = rets[2][p] /\ rets[1][p] > 255

(***************************************************************************)
(* C7: after any sequence of writes and finish() calls the sink holds what *)
(* it held at construction followed by the concatenation, in call order,   *)
(* of each write's own normalized bytes; finish() is the digest of a fresh *)
(* sink fed those bytes directly.                                          *)
(***************************************************************************)
C7_Composable ==
    \A p \in Platforms :
        LET fed == sink0.acc \o Concatenation(p)
        IN  /\ Acc(hasher[p]) = fed
            /\ finish(hasher[p]) = SinkFinish(SinkWrite(FreshSink, fed))

C7_Witness ==
    /\ Len(ops) = 2
    /\ Kind(ops[1]) = "write_i8"
    /\ Kind(ops[2]) = "write_u32"
    /\ lastOp = "finish"
    /\ sink0 # FreshSink

(***************************************************************************)
(* C8: new() forwards nothing to the sink; as_inner() shows the sink and   *)
(* leaves the hasher as it was; into_inner() gives back the sink holding   *)
(* what it held at construction followed by every byte forwarded since,    *)
(* and its digest is the finish() of the hasher that was unwrapped.        *)
(***************************************************************************)
C8_NewBorrowUnwrap ==
    \A p \in Platforms :
        /\ lastOp = "new" => SinkOf(hasher[p]) = sink0
        /\ lastOp = "as_inner" =>
               /\ hasher[p] = AfterLastWrite(p)
               /\ view[1][p] = SinkFinish(SinkOf(hasher[p]))
        /\ lastOp = "into_inner" =>
               /\ Len(out[p]) = 1
               /\ out[p][1].acc = sink0.acc \o Concatenation(p)
               /\ out[p][1] = SinkOf(AfterLastWrite(p))
               /\ SinkFinish(out[p][1]) = finish(hasher[p])

C8_Witness ==
    /\ lastOp = "into_inner"
    /\ Len(ops) = 2
    /\ sink0 # FreshSink
    /\ \A p \in Platforms : Len(out[p][1].acc) > 2

(***************************************************************************)
(* C9: a hasher wrapping a hasher wrapping sink S forwards to S what a     *)
(* single hasher wrapping S forwards, and finishes with the same value.    *)
(***************************************************************************)
C9_ChainingAddsNothing ==
    \A p \in Platforms :
        /\ SinkOf(chained[p]) = SinkOf(hasher[p])
        /\ finish(chained[p]) = finish(hasher[p])

C9_Witness ==
    /\ Len(ops) = 2
    /\ Kind(ops[1]) = "write_u16"
    /\ Kind(ops[2]) = "write_usize"
    /\ \A p \in Platforms : Len(Acc(chained[p])) >= 10

(***************************************************************************)
(* C10: the sink is called through write only, never through a typed       *)
(* method, and each write on the hasher is exactly one write call on the   *)
(* sink, carrying the value's whole canonical byte sequence.               *)
(***************************************************************************)
C10_OnlyRawWrites ==
    \A p \in Platforms :
        LET calls == SinkOf(hasher[p]).calls
            n0 == Len(sink0.calls)
        IN  /\ \A i \in 1..Len(calls) : calls[i][1] = "write"
            /\ Len(calls) = n0 + Len(ops)
            /\ \A i \in 1..Len(ops) : calls[n0 + i][2] = CanonLen(ops[i])

C10_Witness ==
    /\ Len(ops) = 2
    /\ Kind(ops[1]) = "write_i128"
    /\ Kind(ops[2]) = "write_isize"
    /\ \A p \in Platforms : Len(SinkOf(hasher[p]).calls) >= 2

=============================================================================
